---- MODULE Spec2Model ----
(***************************************************************************)
(* Model of vtk_utils/visualization_utils.py: the shape validator          *)
(* check_array_dimensions and the three render entry points render_vtk,    *)
(* render_2D_from_numpy and render_3D_from_numpy.                          *)
(*                                                                         *)
(* A call runs statement by statement (pc).  Every call into pyvista that  *)
(* touches the display, the renderer or the disk either succeeds or raises;*)
(* nothing in the module catches an exception, so a raise ends the call.   *)
(*                                                                         *)
(* A numpy array is a record [shape, fill, marks]: every element equals    *)
(* fill except the elements listed in marks, a set of <<index, value>>.    *)
(* This keeps the extents of the source at their real size.                *)
(***************************************************************************)
EXTENDS Integers, Sequences, FiniteSets, TLC

VARIABLES pc, fn, numpy_array, extent_size, filename, vtk_data_object,
          dims, pv_data, grid, plotter, xvfb, openPlotters, files,
          outcome, trace, writes, pre, calls

vars == <<pc, fn, numpy_array, extent_size, filename, vtk_data_object,
          dims, pv_data, grid, plotter, xvfb, openPlotters, files,
          outcome, trace, writes, pre, calls>>

(* ---------------- bounds of the model ---------------- *)
MaxCalls == 2
MaxFill == 1

(* ---------------- module constants ---------------- *)
EXTENT_SIZE_3D == <<101, 101, 51>>
EXTENT_SIZE_2D == <<101, 101>>
ORIGIN == <<0, 0, 0>>
SPACING == <<1, 1, 1>>
CELL_DATA == "Spin"
DefaultFilename_render_vtk == "visualization.png"
DefaultFilename_from_numpy == "visual_np.png"

(* ---------------- helpers on tuples ---------------- *)
Range(s) == {s[i] : i \in DOMAIN s}

RECURSIVE Prod(_)
Prod(s) == IF s = <<>> THEN 1 ELSE Head(s) * Prod(Tail(s))

(* numpy_array.size *)
Size(a) == Prod(a.shape)

(* position of index idx in row-major (C) order: last axis varies fastest *)
RECURSIVE RavelC(_, _)
RavelC(idx, shape) ==
    IF idx = <<>> THEN 0
    ELSE LET n == Len(idx)
         IN  RavelC(SubSeq(idx, 1, n - 1), SubSeq(shape, 1, n - 1)) * shape[n] + idx[n]

(* position of index idx in column-major (Fortran) order *)
RECURSIVE RavelF(_, _)
RavelF(idx, shape) ==
    IF idx = <<>> THEN 0
    ELSE idx[1] + shape[1] * RavelF(Tail(idx), Tail(shape))

(* element of array a at index idx *)
At(a, idx) ==
    IF \E m \in a.marks : m[1] = idx
    THEN (CHOOSE m \in a.marks : m[1] = idx)[2]
    ELSE a.fill

flatten_F(a) ==
    [shape |-> <<Size(a)>>,
     fill  |-> a.fill,
     marks |-> {<<(<<RavelF(m[1], a.shape)>>), m[2]>> : m \in a.marks}]

(* numpy_array.flatten(order="C"): a new 1-D array, elements copied in C order *)
flatten(a) ==
    [shape |-> <<Size(a)>>,
     fill  |-> a.fill,
     marks |-> {<<(<<RavelC(m[1], a.shape)>>), m[2]>> : m \in a.marks}]

(* ---------------- check_array_dimensions ---------------- *)
expected_shape_clamped(extent) ==
    [i \in DOMAIN extent |-> IF extent[i] - 1 < 1 THEN 1 ELSE extent[i] - 1]

expected_shape_points(extent) == extent

(* expected_shape = tuple(e - 1 for e in extent_size) *)
expected_shape(extent) == [i \in DOMAIN extent |-> extent[i] - 1]

NoOutcome == [kind |-> "none", value |-> "-", error |-> "-", actual |-> <<>>, expected |-> <<>>]
Returned(v) == [kind |-> "return", value |-> v, error |-> "-", actual |-> <<>>, expected |-> <<>>]
ValueError(actual, expected) ==
    [kind |-> "raise", value |-> "-", error |-> "ValueError", actual |-> actual, expected |-> expected]
CollaboratorFailure(op) ==
    [kind |-> "raise", value |-> "-", error |-> op, actual |-> <<>>, expected |-> <<>>]

check_array_dimensions_noraise(a, extent) ==
    IF a.shape # expected_shape(extent) THEN Returned("False") ELSE Returned("True")

check_array_dimensions_wrongmsg(a, extent) ==
    IF a.shape # expected_shape(extent)
    THEN ValueError(a.shape, extent)
    ELSE Returned("True")

check_array_dimensions(a, extent) ==
    IF a.shape # expected_shape(extent)
    THEN ValueError(a.shape, expected_shape(extent))
    ELSE Returned("True")

(* ---------------- the grid object (pyvista.ImageData) ---------------- *)
NoGrid == [exists |-> FALSE, dimensions |-> <<>>, spacing |-> <<>>, origin |-> <<>>,
           cell_data |-> <<>>]

(* number of cells of a grid with the given point dimensions *)
NCells(d) == Prod([i \in DOMAIN d |-> IF d[i] - 1 > 1 THEN d[i] - 1 ELSE 1])

Grid2D_thick(a) ==
    [exists |-> TRUE, dimensions |-> <<a.shape[1] + 1, a.shape[2] + 1, 2>>,
     spacing |-> SPACING, origin |-> ORIGIN, cell_data |-> <<>>]

(* lines 89-96 of render_2D_from_numpy *)
Grid2D(a) ==
    [exists |-> TRUE, dimensions |-> <<a.shape[1] + 1, a.shape[2] + 1, 1>>,
     spacing |-> SPACING, origin |-> ORIGIN, cell_data |-> <<>>]

Grid3D_cells(a) ==
    [exists |-> TRUE, dimensions |-> expected_shape(EXTENT_SIZE_3D),
     spacing |-> SPACING, origin |-> ORIGIN, cell_data |-> <<>>]

(* lines 118-120 of render_3D_from_numpy *)
Grid3D(a) ==
    [exists |-> TRUE, dimensions |-> EXTENT_SIZE_3D,
     spacing |-> SPACING, origin |-> ORIGIN, cell_data |-> <<>>]

(* g.cell_data[name] = arr : replaces the field of that name or adds it *)
SetCellData(g, name, arr) ==
    LET kept == SelectSeq(g.cell_data, LAMBDA e : e.name # name)
    IN  [g EXCEPT !.cell_data = Append(kept, [name |-> name, array |-> arr])]

(* ---------------- the plotter and the file system ---------------- *)
NoPlotter == [exists |-> FALSE, open |-> FALSE, actor |-> "none", shown |-> FALSE]
NewPlotter == [exists |-> TRUE, open |-> TRUE, actor |-> "none", shown |-> FALSE]

NoFile == [mode |-> "none", call |-> 0]
Image(p, c) == [mode |-> p.actor, call |-> c]

Screenshot_keep(fs, f, img) == IF fs[f] # NoFile THEN fs ELSE [fs EXCEPT ![f] = img]

(* plotter.screenshot(filename): writes the image, replacing an existing file *)
Screenshot(fs, f, img) == [fs EXCEPT ![f] = img]

RenderMode_lastaxis(d) == IF d[3] = 1 THEN "mesh" ELSE "volume"

(* lines 62-67 of render_vtk: "if 1 in dims" *)
RenderMode(d) == IF 1 \in Range(d) THEN "mesh" ELSE "volume"

(* ---------------- inputs of the calls ---------------- *)
Shapes == {<<100, 100>>, <<100, 100, 50>>, <<100, 100, 1>>, <<50, 100, 100>>,
           <<100, 99>>, <<101, 101>>, <<101, 101, 51>>, <<100>>, <<0, 0>>, <<1, 0, 2>>}

Extents == {EXTENT_SIZE_2D, EXTENT_SIZE_3D, <<1, 1>>, <<2, 1, 3>>}

InBounds(idx, shape) == \A i \in DOMAIN shape : idx[i] >= 0 /\ idx[i] < shape[i]

(* a few indices of an array of the given shape: first, second along the last
   axis, second along the first axis, last *)
Probes(shape) ==
    LET n == Len(shape)
        cand == {[i \in 1..n |-> 0],
                 [i \in 1..n |-> IF i = n THEN 1 ELSE 0],
                 [i \in 1..n |-> IF i = 1 THEN 1 ELSE 0],
                 [i \in 1..n |-> shape[i] - 1]}
    IN  {c \in cand : InBounds(c, shape)}

Arrays ==
    {[shape |-> sh, fill |-> v, marks |-> mk] :
        sh \in Shapes, v \in 0..MaxFill, mk \in {{}}}
    \cup
    UNION {{[shape |-> sh, fill |-> v, marks |-> {<<p, MaxFill + 1>>}] :
                v \in 0..MaxFill, p \in Probes(sh)} : sh \in Shapes}

NoArray == [shape |-> <<>>, fill |-> 0, marks |-> {}]

VtkDims == {<<101, 101, 1>>, <<101, 101, 51>>, <<1, 5, 5>>, <<5, 1, 5>>,
            <<2, 2, 2>>, <<1, 1, 1>>, <<0, 0, 0>>, <<3, 4, 2>>}
NoObject == [dimensions |-> <<>>]

Omitted == "<omitted>"
Filenames == {DefaultFilename_render_vtk, DefaultFilename_from_numpy, "out.png"}
FilenameArgs == {Omitted, "out.png"}

Snapshot(f) == [files |-> files, xvfb |-> xvfb, openPlotters |-> openPlotters,
                filename_arg |-> f]
NoSnapshot == [files |-> [f \in Filenames |-> NoFile], xvfb |-> FALSE, openPlotters |-> 0,
               filename_arg |-> Omitted]

(* ---------------- initial state: the module is imported, no call made ---- *)
Init ==
    /\ pc = "idle"
    /\ fn = "none"
    /\ numpy_array = NoArray
    /\ extent_size = <<>>
    /\ filename = Omitted
    /\ vtk_data_object = NoObject
    /\ dims = <<>>
    /\ pv_data = NoGrid
    /\ grid = NoGrid
    /\ plotter = NoPlotter
    /\ xvfb = FALSE
    /\ openPlotters = 0
    /\ files = [f \in Filenames |-> NoFile]
    /\ outcome = NoOutcome
    /\ trace = <<>>
    /\ writes = 0
    /\ pre = NoSnapshot
    /\ calls = 0

(* ---------------- steps shared by the three render functions ------------- *)
args == <<fn, numpy_array, extent_size, filename, vtk_data_object, pre, calls>>

(* pv.start_xvfb() *)
StartXvfb(here, next) ==
    /\ pc = here
    /\ trace' = Append(trace, "start_xvfb")
    /\ \/ /\ xvfb' = TRUE
          /\ pc' = next
          /\ outcome' = outcome
       \/ /\ xvfb' = xvfb
          /\ pc' = "done"
          /\ outcome' = CollaboratorFailure("start_xvfb")
    /\ UNCHANGED <<args, dims, pv_data, grid, plotter, openPlotters, files, writes>>

(* plotter = pv.Plotter(off_screen=True) *)
Plotter(here, next) ==
    /\ pc = here
    /\ trace' = Append(trace, "Plotter")
    /\ \/ /\ plotter' = NewPlotter
          /\ openPlotters' = openPlotters + 1
          /\ pc' = next
          /\ outcome' = outcome
       \/ /\ UNCHANGED <<plotter, openPlotters>>
          /\ pc' = "done"
          /\ outcome' = CollaboratorFailure("Plotter")
    /\ UNCHANGED <<args, dims, pv_data, grid, xvfb, files, writes>>

(* plotter.add_mesh(...) or plotter.add_volume(...), by mode *)
Add(here, next, mode) ==
    /\ pc = here
    /\ trace' = Append(trace, IF mode = "mesh" THEN "add_mesh" ELSE "add_volume")
    /\ \/ /\ plotter' = [plotter EXCEPT !.actor = mode]
          /\ pc' = next
          /\ outcome' = outcome
       \/ /\ plotter' = plotter
          /\ pc' = "done"
          /\ outcome' = CollaboratorFailure(IF mode = "mesh" THEN "add_mesh" ELSE "add_volume")
    /\ UNCHANGED <<args, dims, pv_data, grid, xvfb, openPlotters, files, writes>>

(* plotter.show(auto_close=False) *)
Show(here, next) ==
    /\ pc = here
    /\ trace' = Append(trace, "show")
    /\ \/ /\ plotter' = [plotter EXCEPT !.shown = TRUE]
          /\ pc' = next
          /\ outcome' = outcome
       \/ /\ plotter' = plotter
          /\ pc' = "done"
          /\ outcome' = CollaboratorFailure("show")
    /\ UNCHANGED <<args, dims, pv_data, grid, xvfb, openPlotters, files, writes>>

ScreenshotOk(here, next) ==
    /\ pc = here
    /\ trace' = Append(trace, "screenshot")
    /\ files' = Screenshot(files, filename, Image(plotter, calls))
    /\ writes' = writes + 1
    /\ pc' = next
    /\ UNCHANGED <<args, dims, pv_data, grid, plotter, xvfb, openPlotters, outcome>>

ScreenshotFails(here) ==
    /\ pc = here
    /\ trace' = Append(trace, "screenshot")
    /\ pc' = "done"
    /\ outcome' = CollaboratorFailure("screenshot")
    /\ UNCHANGED <<args, dims, pv_data, grid, plotter, xvfb, openPlotters, files, writes>>

(* plotter.close(), the last statement: the function then returns None *)
Close(here) ==
    /\ pc = here
    /\ trace' = Append(trace, "close")
    /\ plotter' = [plotter EXCEPT !.open = FALSE]
    /\ openPlotters' = openPlotters - 1
    /\ pc' = "done"
    /\ outcome' = Returned("None")
    /\ UNCHANGED <<args, dims, pv_data, grid, xvfb, files, writes>>

(* a call starts: arguments bound, locals fresh *)
Enter(name, a, e, given, f, obj, first) ==
    /\ pc = "idle"
    /\ calls < MaxCalls
    /\ calls' = calls + 1
    /\ fn' = name
    /\ numpy_array' = a
    /\ extent_size' = e
    /\ filename' = f
    /\ vtk_data_object' = obj
    /\ pre' = Snapshot(given)
    /\ trace' = <<>>
    /\ writes' = 0
    /\ pc' = first
    /\ UNCHANGED <<pv_data, grid, plotter, xvfb, openPlotters, files>>

(* ---------------- check_array_dimensions called directly ---------------- *)
call_check_array_dimensions ==
    \E a \in Arrays, e \in Extents :
        /\ Enter("check_array_dimensions", a, e, Omitted, Omitted, NoObject, "done")
        /\ outcome' = check_array_dimensions(a, e)
        /\ dims' = dims

(* ---------------- render_vtk ---------------- *)
(* the filename parameter: the default when the argument is omitted *)
Param(given, default) == IF given = Omitted THEN default ELSE given

(* line 55: dims = vtk_data_object.GetDimensions() *)
call_render_vtk ==
    \E d \in VtkDims, f \in FilenameArgs :
        /\ Enter("render_vtk", NoArray, <<>>, f, Param(f, DefaultFilename_render_vtk),
                 [dimensions |-> d], "rv_57")
        /\ dims' = d
        /\ outcome' = NoOutcome

rv_start_xvfb == StartXvfb("rv_57", "rv_58")

(* line 58: pv_data = pv.wrap(vtk_data_object) *)
rv_wrap ==
    /\ pc = "rv_58"
    /\ trace' = Append(trace, "wrap")
    /\ \/ /\ pv_data' = [NoGrid EXCEPT !.exists = TRUE,
                                       !.dimensions = vtk_data_object.dimensions]
          /\ pc' = "rv_59"
          /\ outcome' = outcome
       \/ /\ pv_data' = pv_data
          /\ pc' = "done"
          /\ outcome' = CollaboratorFailure("wrap")
    /\ UNCHANGED <<args, dims, grid, plotter, xvfb, openPlotters, files, writes>>

rv_Plotter == Plotter("rv_59", "rv_62")

(* lines 62-67 *)
rv_add == Add("rv_62", "rv_69", RenderMode(dims))

rv_show == Show("rv_69", "rv_70")
rv_screenshot == ScreenshotOk("rv_70", "rv_71")
rv_screenshot_fails == ScreenshotFails("rv_70")
rv_close == Close("rv_71")

(* ---------------- render_2D_from_numpy ---------------- *)
call_render_2D_from_numpy ==
    \E a \in Arrays, f \in FilenameArgs :
        /\ Enter("render_2D_from_numpy", a, <<>>, f, Param(f, DefaultFilename_from_numpy),
                 NoObject, "r2_87")
        /\ dims' = dims
        /\ outcome' = NoOutcome

(* a statement "check_array_dimensions(numpy_array, extent_size=...)":
   the raise ends the caller, the returned value is dropped *)
Validate(here, next, extent) ==
    /\ pc = here
    /\ LET r == check_array_dimensions(numpy_array, extent)
       IN  IF r.kind = "raise"
           THEN /\ outcome' = r
                /\ pc' = "done"
           ELSE /\ outcome' = outcome
                /\ pc' = next
    /\ UNCHANGED <<args, dims, pv_data, grid, plotter, xvfb, openPlotters, files,
                   trace, writes>>

(* line 87 *)
r2_check == Validate("r2_87", "r2_89", EXTENT_SIZE_2D)

(* lines 89-96 *)
r2_grid ==
    /\ pc = "r2_89"
    /\ trace' = Append(trace, "ImageData")
    /\ grid' = Grid2D(numpy_array)
    /\ pc' = "r2_97"
    /\ UNCHANGED <<args, dims, pv_data, plotter, xvfb, openPlotters, files, outcome, writes>>

(* grid.cell_data[CELL_DATA] = numpy_array.flatten(order="C"); pyvista refuses
   an array whose length is not the grid's number of cells *)
AttachField(here, next) ==
    /\ pc = here
    /\ trace' = Append(trace, "cell_data")
    /\ LET arr == flatten(numpy_array)
       IN  IF arr.shape[1] = NCells(grid.dimensions)
           THEN /\ grid' = SetCellData(grid, CELL_DATA, arr)
                /\ pc' = next
                /\ outcome' = outcome
           ELSE /\ grid' = grid
                /\ pc' = "done"
                /\ outcome' = CollaboratorFailure("cell_data")
    /\ UNCHANGED <<args, dims, pv_data, plotter, xvfb, openPlotters, files, writes>>

(* line 97 *)
r2_cell_data == AttachField("r2_97", "r2_99")

r2_start_xvfb == StartXvfb("r2_99", "r2_100")
r2_Plotter == Plotter("r2_100", "r2_101")
r2_add_mesh == Add("r2_101", "r2_103", "mesh")
r2_show == Show("r2_103", "r2_104")
r2_screenshot == ScreenshotOk("r2_104", "r2_105")
r2_screenshot_fails == ScreenshotFails("r2_104")
r2_close == Close("r2_105")

(* ---------------- render_3D_from_numpy ---------------- *)
call_render_3D_from_numpy ==
    \E a \in Arrays, f \in FilenameArgs :
        /\ Enter("render_3D_from_numpy", a, <<>>, f, Param(f, DefaultFilename_from_numpy),
                 NoObject, "r3_116")
        /\ dims' = dims
        /\ outcome' = NoOutcome

(* line 116 *)
r3_check == Validate("r3_116", "r3_118", EXTENT_SIZE_3D)

(* lines 118-120; pv.ImageData(EXTENT_SIZE_3D) hands the dimensions over as
   the first positional argument, which pyvista releases either take as the
   dimensions or reject with a TypeError *)
r3_image ==
    /\ pc = "r3_118"
    /\ trace' = Append(trace, "ImageData")
    /\ \/ /\ grid' = Grid3D(numpy_array)
          /\ pc' = "r3_121"
          /\ outcome' = outcome
       \/ /\ grid' = grid
          /\ pc' = "done"
          /\ outcome' = CollaboratorFailure("ImageData")
    /\ UNCHANGED <<args, dims, pv_data, plotter, xvfb, openPlotters, files, writes>>

(* line 121 *)
r3_cell_data == AttachField("r3_121", "r3_123")

r3_start_xvfb == StartXvfb("r3_123", "r3_124")
r3_Plotter == Plotter("r3_124", "r3_126")
r3_add_volume == Add("r3_126", "r3_128", "volume")
r3_show == Show("r3_128", "r3_129")
r3_screenshot == ScreenshotOk("r3_129", "r3_130")
r3_screenshot_fails == ScreenshotFails("r3_129")
r3_close == Close("r3_130")

(* ---------------- the call is over ---------------- *)
(* the outcome goes to the caller and the frame is dropped: arguments and
   locals are gone; the display, the plotters left open and the files stay *)
Return ==
    /\ pc = "done"
    /\ pc' = "idle"
    /\ fn' = "none"
    /\ numpy_array' = NoArray
    /\ extent_size' = <<>>
    /\ filename' = Omitted
    /\ vtk_data_object' = NoObject
    /\ dims' = <<>>
    /\ pv_data' = NoGrid
    /\ grid' = NoGrid
    /\ plotter' = NoPlotter
    /\ outcome' = NoOutcome
    /\ trace' = <<>>
    /\ writes' = 0
    /\ pre' = NoSnapshot
    /\ UNCHANGED <<xvfb, openPlotters, files, calls>>

Next ==
    \/ call_check_array_dimensions
    \/ call_render_vtk
    \/ rv_start_xvfb \/ rv_wrap \/ rv_Plotter \/ rv_add \/ rv_show
    \/ rv_screenshot \/ rv_screenshot_fails \/ rv_close
    \/ call_render_2D_from_numpy
    \/ r2_check \/ r2_grid \/ r2_cell_data \/ r2_start_xvfb \/ r2_Plotter \/ r2_add_mesh
    \/ r2_show \/ r2_screenshot \/ r2_screenshot_fails \/ r2_close
    \/ call_render_3D_from_numpy
    \/ r3_check \/ r3_image \/ r3_cell_data \/ r3_start_xvfb \/ r3_Plotter \/ r3_add_volume
    \/ r3_show \/ r3_screenshot \/ r3_screenshot_fails \/ r3_close
    \/ Return

Spec == Init /\ [][Next]_vars

(***************************************************************************)
(* Properties                                                              *)
(***************************************************************************)
Count(seq, x) == Cardinality({i \in DOMAIN seq : seq[i] = x})

FromNumpy == {"render_2D_from_numpy", "render_3D_from_numpy"}
Renders == FromNumpy \cup {"render_vtk"}

(* the extent the running call validates against *)
ExtentUsed ==
    IF fn = "check_array_dimensions" THEN extent_size
    ELSE IF fn = "render_2D_from_numpy" THEN <<101, 101>>
    ELSE <<101, 101, 51>>

(* shape == extent - 1, axis by axis, same number of axes *)
ShapeIsExtentMinusOne(shape, extent) ==
    /\ Len(shape) = Len(extent)
    /\ \A i \in 1..Len(extent) : shape[i] = extent[i] - 1

(* nothing outside the call's own frame differs from when the call started *)
NoEffect ==
    /\ files = pre.files
    /\ xvfb = pre.xvfb
    /\ openPlotters = pre.openPlotters
    /\ writes = 0
    /\ grid = NoGrid
    /\ pv_data = NoGrid
    /\ plotter = NoPlotter

(* C1: check_array_dimensions(array, extent) returns True exactly when
   array.shape equals extent - 1 on every axis with the same number of axes;
   it never returns False; an extent component of 1 expects 0 cells. *)
Thm_C1 ==
    (fn = "check_array_dimensions" /\ pc = "done") =>
        /\ outcome.kind \in {"return", "raise"}
        /\ (outcome.kind = "return") <=> ShapeIsExtentMinusOne(numpy_array.shape, extent_size)
        /\ outcome.kind = "return" => outcome.value = "True"
        /\ outcome.value # "False"

Wit_C1 ==
    /\ fn = "check_array_dimensions" /\ pc = "done"
    /\ extent_size = <<1, 1>>
    /\ numpy_array.shape = <<0, 0>>
    /\ outcome = Returned("True")

(* C2: when the shape differs from extent - 1 in any axis or in the number of
   axes, check_array_dimensions raises the shape-mismatch error carrying the
   actual shape and the expected shape extent - 1, and changes no state. *)
Thm_C2 ==
    (fn \in FromNumpy \cup {"check_array_dimensions"} /\ pc = "done"
        /\ ~ShapeIsExtentMinusOne(numpy_array.shape, ExtentUsed)) =>
        /\ outcome.kind = "raise"
        /\ outcome.error = "ValueError"
        /\ outcome.actual = numpy_array.shape
        /\ ShapeIsExtentMinusOne(outcome.expected, ExtentUsed)
        /\ NoEffect

Wit_C2 ==
    /\ fn = "check_array_dimensions" /\ pc = "done"
    /\ numpy_array.shape = <<100, 100>>
    /\ extent_size = <<101, 101, 51>>
    /\ outcome.actual = <<100, 100>>
    /\ outcome.expected = <<100, 100, 50>>

(* C3: in render_2D_from_numpy and render_3D_from_numpy an array whose shape
   is not (100,100), respectively (100,100,50), gets no further than the
   validation: the error is raised with no grid built, no framebuffer or
   plotter acquired and no file written. *)
Thm_C3 ==
    (fn \in FromNumpy) =>
        /\ (pc = "done" /\ outcome.error = "ValueError") =>
                /\ trace = <<>>
                /\ NoEffect
        /\ numpy_array.shape # (IF fn = "render_2D_from_numpy"
                                THEN <<100, 100>> ELSE <<100, 100, 50>>) =>
                /\ pc \in {"r2_87", "r3_116", "done"}
                /\ trace = <<>>
                /\ NoEffect
                /\ pc = "done" => outcome.error = "ValueError"

Wit_C3 ==
    /\ fn = "render_2D_from_numpy" /\ pc = "done"
    /\ numpy_array.shape = <<100, 100, 50>>
    /\ outcome.error = "ValueError"
    /\ outcome.expected = <<100, 100>>
    /\ pre.xvfb

(* C4: no render call ends with its plotter still open, whatever the exit
   path. *)
Cex_C4 ==
    (fn \in Renders /\ pc = "done") => ~plotter.open

(* C5: render_vtk, once it gets to the choice, takes exactly one of the two
   paths, the surface mesh when some axis of the object's dimensions is 1 and
   the volume otherwise (so when all three are greater than 1); it never
   takes both. *)
Thm_C5 ==
    (fn = "render_vtk") =>
        LET d == vtk_data_object.dimensions
            meshN == Count(trace, "add_mesh")
            volN == Count(trace, "add_volume")
            flat == \E i \in 1..3 : d[i] = 1
            chosen == \/ pc \in {"rv_69", "rv_70", "rv_71"}
                      \/ /\ pc = "done"
                         /\ Count(trace, "Plotter") = 1
                         /\ outcome.error # "Plotter"
        IN  /\ meshN + volN <= 1
            /\ chosen => meshN + volN = 1
            /\ chosen => (meshN = 1 <=> flat)
            /\ (\A i \in 1..3 : d[i] > 1) => meshN = 0
            /\ flat => volN = 0

Wit_C5 ==
    /\ fn = "render_vtk"
    /\ vtk_data_object.dimensions = <<1, 5, 5>>
    /\ plotter.actor = "mesh"
    /\ filename = "out.png"

(* the position of index idx in the row-major flattening of shape *)
RowMajor(idx, shape) ==
    IF Len(shape) = 2 THEN idx[1] * shape[2] + idx[2]
    ELSE (idx[1] * shape[2] + idx[2]) * shape[3] + idx[3]

(* C6: the grid built by render_2D_from_numpy / render_3D_from_numpy has the
   one cell field "Spin", and the field is the row-major flattening of the
   array: same length, and the same value at every position. *)
Thm_C6 ==
    (fn \in FromNumpy /\ grid.cell_data # <<>>) =>
        /\ Len(grid.cell_data) = 1
        /\ grid.cell_data[1].name = "Spin"
        /\ LET fld == grid.cell_data[1].array
               a == numpy_array
           IN  /\ fld.shape = <<Prod(a.shape)>>
               /\ fld.fill = a.fill
               /\ \A m \in a.marks : At(fld, <<RowMajor(m[1], a.shape)>>) = m[2]
               /\ \A q \in fld.marks :
                     \E m \in a.marks : RowMajor(m[1], a.shape) = q[1][1] /\ m[2] = q[2]
               /\ Cardinality(fld.marks) = Cardinality(a.marks)

Wit_C6 ==
    /\ fn = "render_3D_from_numpy"
    /\ grid.cell_data # <<>>
    /\ <<(<<1, 0, 0>>), MaxFill + 1>> \in numpy_array.marks
    /\ At(grid.cell_data[1].array, <<5000>>) = MaxFill + 1
    /\ At(grid.cell_data[1].array, <<1>>) = numpy_array.fill

(* C7: the built grid has array.shape[axis] + 1 points on every axis of the
   array, a third axis of size 1 when the array is 2D, origin (0,0,0) and
   spacing (1,1,1); also in render_3D_from_numpy. *)
Thm_C7 ==
    (fn \in FromNumpy /\ grid.exists) =>
        /\ Len(grid.dimensions) = 3
        /\ \A i \in 1..Len(numpy_array.shape) :
              grid.dimensions[i] = numpy_array.shape[i] + 1
        /\ Len(numpy_array.shape) = 2 => grid.dimensions[3] = 1
        /\ grid.origin = <<0, 0, 0>>
        /\ grid.spacing = <<1, 1, 1>>

Wit_C7 ==
    /\ fn = "render_3D_from_numpy"
    /\ pc = "r3_121"
    /\ grid.dimensions = <<101, 101, 51>>
    /\ numpy_array.shape = <<100, 100, 50>>

(* the file a call writes to: the argument, or the function's default *)
Target ==
    IF pre.filename_arg # Omitted THEN pre.filename_arg
    ELSE IF fn = "render_vtk" THEN "visualization.png" ELSE "visual_np.png"

(* C8: a successful render call has written exactly one image, to the given
   filename or the default, and returns None; an existing file is replaced, so
   the file holds this call's image, and the screenshot step is never blocked
   by what earlier calls wrote. *)
Thm_C8 ==
    (fn \in Renders) =>
        /\ writes <= 1
        /\ (pc = "done" /\ outcome.kind = "return") =>
              /\ writes = 1
              /\ outcome.value = "None"
              /\ files[Target].call = calls
              /\ files[Target].mode \in {"mesh", "volume"}
              /\ \A f \in Filenames \ {Target} : files[f] = pre.files[f]
        /\ pc \in {"rv_70", "r2_104", "r3_129"} =>
              ENABLED (rv_screenshot \/ r2_screenshot \/ r3_screenshot)

Wit_C8 ==
    /\ fn \in Renders
    /\ pc = "done" /\ outcome.kind = "return"
    /\ pre.filename_arg = Omitted
    /\ pre.files[Target] # NoFile
    /\ files[Target].call = 2

(* C9: the mode render_2D_from_numpy and render_3D_from_numpy hard-code is
   the mode render_vtk's rule gives for the grid they build: (101,101,1) has
   an axis of size 1, (101,101,51) has none. *)
Thm_C9 ==
    (fn \in FromNumpy /\ grid.exists) =>
        LET hard == IF fn = "render_2D_from_numpy" THEN "mesh" ELSE "volume"
            other == IF fn = "render_2D_from_numpy" THEN "add_volume" ELSE "add_mesh"
        IN  /\ RenderMode(grid.dimensions) = hard
            /\ grid.dimensions = (IF fn = "render_2D_from_numpy"
                                  THEN <<101, 101, 1>> ELSE <<101, 101, 51>>)
            /\ plotter.actor \in {"none", hard}
            /\ Count(trace, other) = 0

Wit_C9 ==
    /\ fn = "render_2D_from_numpy"
    /\ plotter.actor = "mesh"
    /\ grid.dimensions = <<101, 101, 1>>
    /\ RenderMode(grid.dimensions) = "mesh"

(* the number of cells of a grid: the product over the three axes of
   max(dimension - 1, 1) *)
CellCount(d) ==
    LET m(i) == IF d[i] - 1 >= 1 THEN d[i] - 1 ELSE 1
    IN  m(1) * m(2) * m(3)

(* C10: where the scalar field is attached, the number of values equals the
   number of cells of the grid: 100*100 in 2D and 100*100*50 in 3D; the
   attachment is never refused for its length. *)
Thm_C10 ==
    (fn \in FromNumpy) =>
        /\ pc \in {"r2_97", "r3_121"} =>
              /\ Prod(numpy_array.shape) = CellCount(grid.dimensions)
              /\ CellCount(grid.dimensions) =
                    (IF fn = "render_2D_from_numpy" THEN 100 * 100 ELSE 100 * 100 * 50)
        /\ grid.cell_data # <<>> =>
              grid.cell_data[1].array.shape = <<CellCount(grid.dimensions)>>
        /\ outcome.error # "cell_data"

Wit_C10 ==
    /\ fn = "render_3D_from_numpy"
    /\ pc = "r3_123"
    /\ grid.cell_data[1].array.shape = <<500000>>
    /\ CellCount(grid.dimensions) = 500000

====
